---------------------------- MODULE Spec2Model ----------------------------
(***************************************************************************)
(* A model of BLASTrunner.py: submit a FASTA sequence to web BLAST, poll   *)
(* the job, fetch and parse the XML report, and load the queries, hits and *)
(* hsps into a SQLite store.                                               *)
(*                                                                         *)
(* Texts are sequences of tokens: one token per character, except that the *)
(* two key literals "RID = " and "RTOE = " are single tokens.              *)
(* Floating-point values are IEEE doubles kept as a significand of         *)
(* MANT_DIG bits (most significant first) and the exponent of the last bit.*)
(***************************************************************************)
EXTENDS Integers, Sequences, FiniteSets, TLC

VARIABLES
    pc,         \* position of run_blast (or of the pure function under check)
    response,   \* response_text of _submit_query
    RID,        \* request id parsed from the response ("" is <<>>)
    RTOE,       \* estimated seconds parsed from the response
    slept,      \* seconds slept before the first status check
    replies,    \* statuses reported to _check_status in this run, in order
    fibo,       \* the backoff.fibo generator state: <<a, b>>
    wait,       \* the delay bound of the retry that is pending
    status,     \* value returned by _check_status
    fetches,    \* result-fetch requests sent in this run
    doc,        \* the XML document the fetch returned
    queries,    \* parser output
    hits,       \* parser output
    hsps,       \* parser output
    store,      \* the SQLite file: tables and rows
    log,        \* store operations started in this run, in order
    err,        \* cause of the last exception caught by a store operation
    exitCode,   \* process exit status, meaningful when pc = "exit"
    fresh       \* the store held no row when this run started

vars == <<pc, response, RID, RTOE, slept, replies, fibo, wait, status, fetches,
          doc, queries, hits, hsps, store, log, err, exitCode, fresh>>

pollVars == <<replies, fibo, wait, status>>
parseVars == <<doc, queries, hits, hsps>>
storeVars == <<store, log, err>>

----------------------------------------------------------------------------
(* Bounds of the model *)

MaxLines == 3       \* lines of a submission response
MaxPolls == 12      \* status checks of one run
MaxNodes == 6       \* iterations + hits + hsps of a document given to the parser
MaxRunNodes == 3    \* the same, of a document fetched in a full run

----------------------------------------------------------------------------
(* Small helpers *)

Min(S) == CHOOSE x \in S : \A y \in S : x <= y

RECURSIVE Flatten(_)
Flatten(ss) == IF ss = <<>> THEN <<>> ELSE Head(ss) \o Flatten(Tail(ss))

SeqsUpTo(S, n) == UNION {[1..k -> S] : k \in 0..n}

----------------------------------------------------------------------------
(* Response text of the submission, and the extractor _parse_RID_RTOE *)

K_RID == "RID = "
K_RTOE == "RTOE = "
NL == "\n"
SP == " "

Digits == {"0", "1", "2", "7"}

DigitVal(c) == CASE c = "0" -> 0 [] c = "1" -> 1 [] c = "2" -> 2 [] c = "7" -> 7

\* re.search(key + "(.*)\n", text): the leftmost occurrence of the key that a
\* newline follows; "." does not match a newline, so the group ends at the
\* first newline after the key.
re_search_last(key, text) ==
    LET starts == {i \in 1..Len(text) :
                      /\ text[i] = key
                      /\ \E j \in (i+1)..Len(text) : text[j] = NL}
    IN  IF starts = {} THEN [matched |-> FALSE, group |-> <<>>]
        ELSE LET i == CHOOSE x \in starts : \A y \in starts : y <= x
                 j == Min({k \in (i+1)..Len(text) : text[k] = NL})
             IN  [matched |-> TRUE, group |-> SubSeq(text, i+1, j-1)]

re_search(key, text) ==
    LET starts == {i \in 1..Len(text) :
                      /\ text[i] = key
                      /\ \E j \in (i+1)..Len(text) : text[j] = NL}
    IN  IF starts = {} THEN [matched |-> FALSE, group |-> <<>>]
        ELSE LET i == Min(starts)
                 j == Min({k \in (i+1)..Len(text) : text[k] = NL})
             IN  [matched |-> TRUE, group |-> SubSeq(text, i+1, j-1)]

\* str.strip() of the blanks int() ignores
RECURSIVE LStrip(_)
LStrip(s) == IF s # <<>> /\ Head(s) = SP THEN LStrip(Tail(s)) ELSE s

RECURSIVE RStrip(_)
RStrip(s) == IF s # <<>> /\ s[Len(s)] = SP THEN RStrip(SubSeq(s, 1, Len(s)-1)) ELSE s

RECURSIVE DecimalValue(_)
DecimalValue(s) ==
    IF s = <<>> THEN 0
    ELSE 10 * DecimalValue(SubSeq(s, 1, Len(s)-1)) + DigitVal(s[Len(s)])

\* int(group): a ValueError unless the stripped text is a non-empty digit string
IntParses(s) ==
    LET t == RStrip(LStrip(s)) IN t # <<>> /\ \A i \in 1..Len(t) : t[i] \in Digits

IntOf(s) == DecimalValue(RStrip(LStrip(s)))

\* _parse_RID_RTOE(response_text): raised is the ValueError of int()
parse_RID_RTOE(text) ==
    LET rid_block == re_search(K_RID, text)
        rtoe_block == re_search(K_RTOE, text)
    IN  [RID    |-> IF rid_block.matched THEN rid_block.group ELSE <<>>,
         raised |-> rtoe_block.matched /\ ~IntParses(rtoe_block.group),
         RTOE   |-> IF rtoe_block.matched /\ IntParses(rtoe_block.group)
                    THEN IntOf(rtoe_block.group) ELSE 0]

----------------------------------------------------------------------------
(* IEEE double arithmetic of the percent-identity expression.  Bit strings  *)
(* are handled eight bits at a time to keep the recursion shallow.          *)

MANT_DIG == 53

RECURSIVE IntBits(_)
IntBits(n) == IF n = 0 THEN <<>> ELSE Append(IntBits(n \div 2), n % 2)

RECURSIVE BitsVal(_)
BitsVal(bits) ==
    IF bits = <<>> THEN 0
    ELSE 2 * BitsVal(SubSeq(bits, 1, Len(bits)-1)) + bits[Len(bits)]

\* the eight bits of a value below 256
ByteBits(v) == [i \in 1..8 |-> (v \div 2^(8-i)) % 2]

Zeros(n) == [i \in 1..n |-> 0]

StripZeros(bits) ==
    LET ones == {i \in 1..Len(bits) : bits[i] = 1}
    IN  IF ones = {} THEN <<>> ELSE SubSeq(bits, Min(ones), Len(bits))

\* add one unit in the last place (the result is one bit longer on a carry out)
IncBits(bits) ==
    LET zs == {i \in 1..Len(bits) : bits[i] = 0}
    IN  IF zs = {} THEN <<1>> \o Zeros(Len(bits))
        ELSE LET k == CHOOSE i \in zs : \A j \in zs : j <= i
             IN  SubSeq(bits, 1, k-1) \o <<1>> \o Zeros(Len(bits) - k)

\* round to nearest, ties to even, given the kept bits and what was cut off
RoundFloat(sig, exp, aboveHalf, isHalf) ==
    IF aboveHalf \/ (isHalf /\ sig[Len(sig)] = 1)
    THEN LET up == IncBits(sig)
         IN  IF Len(up) > MANT_DIG
             THEN [sig |-> SubSeq(up, 1, MANT_DIG), exp |-> exp + 1]
             ELSE [sig |-> up, exp |-> exp]
    ELSE [sig |-> sig, exp |-> exp]

\* the first MANT_DIG significant bits of a bit string whose bit number
\* `units` weighs 1, rounded by the bits after them and by `inexact`
RoundBits(all, units, inexact) ==
    LET first == Min({i \in 1..Len(all) : all[i] = 1})
        last  == first + MANT_DIG - 1
        more  == inexact \/ \E i \in (last+2)..Len(all) : all[i] = 1
    IN  IF Len(all) <= last
        THEN [sig |-> SubSeq(all, first, Len(all)) \o Zeros(last - Len(all)),
              exp |-> units - last]
        ELSE RoundFloat(SubSeq(all, first, last), units - last,
                        all[last+1] = 1 /\ more, all[last+1] = 1 /\ ~more)

\* long division: the next 8*k quotient bits of r/q, and the remainder left
RECURSIVE DivBytes(_, _, _)
DivBytes(r, q, k) ==
    IF k = 0 THEN [bits |-> <<>>, rem |-> r]
    ELSE LET t == r * 256
             rest == DivBytes(t % q, q, k - 1)
         IN  [bits |-> ByteBits(t \div q) \o rest.bits, rem |-> rest.rem]

\* int / int (true division) for a >= 1, q >= 1: the correctly rounded
\* quotient.  72 fraction bits leave MANT_DIG significant ones for any
\* quotient above 2^-18.
FloatDiv(a, q) ==
    LET whole == IntBits(a \div q)
        frac  == DivBytes(a % q, q, 9)
    IN  RoundBits(whole \o frac.bits, Len(whole), frac.rem # 0)

\* the exact product of a bit string and a small integer
RECURSIVE MulBytes(_, _, _)
MulBytes(bytes, n, carry) ==
    IF bytes = <<>> THEN IntBits(carry)
    ELSE LET t == bytes[Len(bytes)] * n + carry
         IN  MulBytes(SubSeq(bytes, 1, Len(bytes)-1), n, t \div 256)
                 \o ByteBits(t % 256)

MulBits(bits, n) ==
    LET padded == Zeros((8 - (Len(bits) % 8)) % 8) \o bits
        bytes  == [k \in 1..(Len(padded) \div 8) |->
                      BitsVal(SubSeq(padded, 8*k - 7, 8*k))]
    IN  StripZeros(MulBytes(bytes, n, 0))

\* int * float: the exact product rounded to MANT_DIG bits
FloatMulInt(n, x) ==
    LET prod == MulBits(x.sig, n)
    IN  RoundBits(prod, Len(prod) + x.exp, FALSE)

\* 100 * (int(align_len) / int(query_len))
percent_identity(align_len, query_len) ==
    FloatMulInt(100, FloatDiv(align_len, query_len))

----------------------------------------------------------------------------
(* The result document and _parse_xml_results.  An Iteration carries its   *)
(* query-ID, query-def and query-len and its hits; a Hit its id, def and   *)
(* accession and its hsps; an Hsp its align-len, bit-score, evalue and     *)
(* gaps.  bit-score and evalue are kept as the texts float() reads.        *)

QueryIDs == {"Query_1", "Query_2"}
QueryDefs == {"seq"}
QueryLens == {300}
HitIDs == {"gi|1", "gi|2"}
HitDefs == {"subject"}
Accessions == {"ACC"}
AlignLens == {1, 150}
BitScores == {"52.8"}
EValues == {"1e-05"}
GapCounts == {0}

HspElems ==
    [align_len : AlignLens, bit_score : BitScores, evalue : EValues, gaps : GapCounts]

SeqsOfLen(S, k) == [1..k -> S]

\* hit lists of at most n elements in all (hits and their hsps)
RECURSIVE HitLists(_)
HitLists(n) ==
    {<<>>} \cup
    UNION {{<<[Hit_id |-> id, Hit_def |-> d, Hit_accession |-> acc, hsps |-> hs]>> \o rest :
               id \in HitIDs, d \in HitDefs, acc \in Accessions,
               hs \in SeqsOfLen(HspElems, k), rest \in HitLists(n - 1 - k)} :
           k \in 0..(n - 1)}

NodesOfHits(hs) == Len(hs) + Len(Flatten([j \in 1..Len(hs) |-> hs[j].hsps]))

\* documents (lists of iterations) of at most n elements in all
RECURSIVE Documents(_)
Documents(n) ==
    {<<>>} \cup
    UNION {{<<[query_ID |-> id, query_def |-> d, query_len |-> len, hits |-> hl]>> \o rest :
               id \in QueryIDs, d \in QueryDefs, len \in QueryLens,
               hl \in {x \in HitLists(k) : NodesOfHits(x) = k},
               rest \in Documents(n - 1 - k)} :
           k \in 0..(n - 1)}

\* a report as BLAST writes it: one iteration per query, and no hit listed
\* twice under one query
WellFormed(d) ==
    /\ \A i, j \in 1..Len(d) : i # j => d[i].query_ID # d[j].query_ID
    /\ \A i \in 1..Len(d) : \A j, k \in 1..Len(d[i].hits) :
           j # k => d[i].hits[j].Hit_id # d[i].hits[k].Hit_id

\* (queryID, queryDef, queryLength)
query_data(iteration) ==
    <<iteration.query_ID, iteration.query_def, iteration.query_len>>

\* (hitID, hitDef, accession, queryID)
hit_data_own_id(hit, iteration) ==
    <<hit.Hit_id, hit.Hit_def, hit.Hit_accession, hit.Hit_id>>

hit_data(hit, iteration) ==
    <<hit.Hit_id, hit.Hit_def, hit.Hit_accession, iteration.query_ID>>

\* (alignmentLength, bitScore, eValue, gaps, percentID, hitID)
hsp_data(hsp, hit, iteration) ==
    <<hsp.align_len, hsp.bit_score, hsp.evalue, hsp.gaps,
      percent_identity(hsp.align_len, iteration.query_len), hit.Hit_id>>

\* for hsp in hit.findall("Hit_hsps/Hsp")
RECURSIVE parse_hsps(_, _, _, _)
parse_hsps(rest, hit, iteration, acc) ==
    IF rest = <<>> THEN acc
    ELSE parse_hsps(Tail(rest), hit, iteration,
                    [acc EXCEPT !.hsps = Append(@, hsp_data(Head(rest), hit, iteration))])

\* for hit in iteration.findall("Iteration_hits/Hit")
RECURSIVE parse_hits(_, _, _)
parse_hits(rest, iteration, acc) ==
    IF rest = <<>> THEN acc
    ELSE LET hit == Head(rest)
             withHit == [acc EXCEPT !.hits = Append(@, hit_data(hit, iteration))]
         IN  parse_hits(Tail(rest), iteration,
                        parse_hsps(hit.hsps, hit, iteration, withHit))

\* for iteration in BlastOutput_iteration.findall("Iteration")
RECURSIVE parse_iterations(_, _)
parse_iterations(rest, acc) ==
    IF rest = <<>> THEN acc
    ELSE LET iteration == Head(rest)
             withQuery == [acc EXCEPT !.queries = Append(@, query_data(iteration))]
         IN  parse_iterations(Tail(rest),
                              parse_hits(iteration.hits, iteration, withQuery))

parse_xml_results(root) ==
    parse_iterations(root, [queries |-> <<>>, hits |-> <<>>, hsps |-> <<>>])

ParseDocs == Documents(MaxNodes)
RunDocs == {d \in Documents(MaxRunNodes) : WellFormed(d)}

----------------------------------------------------------------------------
(* The SQLite store.  A table that exists is a set of rows; foreign keys   *)
(* are declared but sqlite3 does not enforce them unless asked to.  seq is *)
(* the AUTOINCREMENT counter of hsps.                                      *)

TableNames == {"queries", "hits", "hsps"}

CREATE_STATEMENTS == <<"queries", "hits", "hsps">>

NoStore == [tables |-> {}, queries |-> {}, hits |-> {}, hsps |-> {}, seq |-> 0]

NoRows(db) == db.queries = {} /\ db.hits = {} /\ db.hsps = {}

\* CREATE TABLE <table> (...): an error when the table exists
execute_create_plain(db, table) ==
    IF table \in db.tables THEN [ok |-> FALSE, db |-> db]
    ELSE [ok |-> TRUE, db |-> [db EXCEPT !.tables = @ \cup {table}]]

\* CREATE TABLE IF NOT EXISTS <table> (...)
execute_create(db, table) ==
    IF table \in db.tables THEN [ok |-> TRUE, db |-> db]
    ELSE [ok |-> TRUE, db |-> [db EXCEPT !.tables = @ \cup {table}]]

\* for create in CREATE_STATEMENTS: conn.execute(create); the statement
\* numbered failAt raises on its own (0: none does, each DDL statement is
\* committed as it runs)
RECURSIVE run_creates(_, _, _)
run_creates(db, k, failAt) ==
    IF k > Len(CREATE_STATEMENTS) THEN [ok |-> TRUE, db |-> db]
    ELSE IF k = failAt THEN [ok |-> FALSE, db |-> db]
    ELSE LET r == execute_create(db, CREATE_STATEMENTS[k])
         IN  IF r.ok THEN run_creates(r.db, k + 1, failAt) ELSE r

initialize_database(db, failAt) == run_creates(db, 1, failAt)

\* one INSERT of INSERTS[table]: the primary keys queryID and hitID are
\* unique, hspID is assigned from the counter
insert_row(db, table, row) ==
    IF table \notin db.tables THEN [ok |-> FALSE, db |-> db]
    ELSE IF table = "queries"
    THEN IF \E r \in db.queries : r[1] = row[1] THEN [ok |-> FALSE, db |-> db]
         ELSE [ok |-> TRUE, db |-> [db EXCEPT !.queries = @ \cup {row}]]
    ELSE IF table = "hits"
    THEN IF \E r \in db.hits : r[1] = row[1] THEN [ok |-> FALSE, db |-> db]
         ELSE [ok |-> TRUE, db |-> [db EXCEPT !.hits = @ \cup {row}]]
    ELSE [ok |-> TRUE,
          db |-> [db EXCEPT !.hsps = @ \cup {<<db.seq + 1>> \o row}, !.seq = @ + 1]]

\* conn.executemany(INSERTS[db_table], result_data): row by row inside one
\* open transaction, stopping at the first row that raises
RECURSIVE executemany(_, _, _)
executemany(db, table, rows) ==
    IF rows = <<>> THEN [ok |-> TRUE, db |-> db]
    ELSE LET r == insert_row(db, table, Head(rows))
         IN  IF r.ok THEN executemany(r.db, table, Tail(rows)) ELSE r

\* _load_results_into_database without the rollback: what the transaction
\* had written stays
load_results_keep_partial(db, result_data, db_table, fault) ==
    LET r == executemany(db, db_table, result_data)
    IN  IF r.ok /\ ~fault THEN [ok |-> TRUE, db |-> r.db]
        ELSE [ok |-> FALSE, db |-> r.db]

\* _load_results_into_database: commit when nothing raised; otherwise
\* sys.exit(1) leaves the transaction open and closing the file rolls it back.
\* fault: connect, executemany or commit raises for a reason of the file system
load_results_into_database(db, result_data, db_table, fault) ==
    LET r == executemany(db, db_table, result_data)
    IN  IF r.ok /\ ~fault THEN [ok |-> TRUE, db |-> r.db]
        ELSE [ok |-> FALSE, db |-> db]

----------------------------------------------------------------------------
(* Inputs from outside: the submission response, the status replies        *)

RidValues == {<<"A">>, <<"A", "7", SP>>}
RtoeValues == {<<"0">>, <<"7">>, <<"1", "2">>, <<"x">>}

RidLines == {pre \o <<K_RID>> \o x : pre \in {<<>>, <<SP>>}, x \in RidValues \cup {<<>>}}
RtoeLines == {pre \o <<K_RTOE>> \o n : pre \in {<<>>, <<SP>>}, n \in RtoeValues}
OtherLines == {<<>>, <<"x">>}

\* the lines joined by newlines; the last one ends the text unterminated
\* when `open` holds
Render(lines, open) ==
    LET text == Flatten([i \in 1..Len(lines) |-> lines[i] \o <<NL>>])
    IN  IF open /\ lines # <<>> THEN SubSeq(text, 1, Len(text) - 1) ELSE text

ResponsesOf(lineSet, n) ==
    {Render(ls, open) : ls \in SeqsUpTo(lineSet, n), open \in BOOLEAN}

Responses == ResponsesOf(RidLines \cup RtoeLines \cup OtherLines, MaxLines)

RunResponses ==
    {Render(ls, FALSE) :
        ls \in {<<<<K_RID, "A">>, <<K_RTOE, "7">>>>, <<<<K_RID, "A">>>>,
                <<<<K_RTOE, "7">>>>, <<<<K_RID, "A">>, <<K_RTOE, "x">>>>}}

NO_STATUS == "<no Status line>"
Replies == {"WAITING", "READY", "FAILED", "UNKNOWN", "PENDING", NO_STATUS}

----------------------------------------------------------------------------
(* backoff.on_predicate(backoff.fibo, lambda status: status == "WAITING",  *)
(* max_value=60)                                                           *)

MAX_VALUE == 60

retry_on_unknown(st) == st \in {"WAITING", "UNKNOWN"}

\* lambda status: status == "WAITING"
retry_predicate(st) == st = "WAITING"

\* backoff.fibo: the value yielded and the generator afterwards
fibo_next(g) ==
    IF g[1] < MAX_VALUE THEN [value |-> g[1], gen |-> <<g[2], g[1] + g[2]>>]
    ELSE [value |-> MAX_VALUE, gen |-> g]

FiboStart == <<1, 1>>

----------------------------------------------------------------------------
(* run_blast, one action per statement that acts on the outside            *)

RunLocalsInit ==
    /\ response = <<>>
    /\ RID = <<>>
    /\ RTOE = 0
    /\ slept = 0
    /\ replies = <<>>
    /\ fibo = FiboStart
    /\ wait = 0
    /\ status = ""
    /\ fetches = 0
    /\ doc = <<>>
    /\ queries = <<>>
    /\ hits = <<>>
    /\ hsps = <<>>
    /\ log = <<>>
    /\ err = "none"
    /\ exitCode = 0

Init ==
    /\ pc = "start"
    /\ RunLocalsInit
    /\ store = NoStore
    /\ fresh = TRUE

\* sys.exit(code), or the exit of an uncaught exception
Exit(how, code) ==
    /\ pc' = how
    /\ exitCode' = code

\* response_text = _submit_query(fasta_file)
SubmitQuery ==
    /\ pc = "start"
    /\ \E text \in RunResponses : response' = text
    /\ pc' = "submitted"
    /\ UNCHANGED <<RID, RTOE, slept, pollVars, fetches, parseVars, storeVars,
                   exitCode, fresh>>

\* RID, RTOE = _parse_RID_RTOE(response_text)
ParseRidRtoe ==
    /\ pc = "submitted"
    /\ LET r == parse_RID_RTOE(response)
       IN  IF r.raised
           THEN /\ Exit("crashed", 1)
                /\ UNCHANGED <<RID, RTOE>>
           ELSE /\ RID' = r.RID
                /\ RTOE' = r.RTOE
                /\ pc' = "parsed"
                /\ UNCHANGED exitCode
    /\ UNCHANGED <<response, slept, pollVars, fetches, parseVars, storeVars, fresh>>

\* if not RID: sys.exit(1)
CheckRID ==
    /\ pc = "parsed"
    /\ IF RID = <<>> THEN Exit("exit", 1)
       ELSE pc' = "rtoe" /\ UNCHANGED exitCode
    /\ UNCHANGED <<response, RID, RTOE, slept, pollVars, fetches, parseVars,
                   storeVars, fresh>>

\* if RTOE: time.sleep(RTOE)
SleepRTOE ==
    /\ pc = "rtoe"
    /\ slept' = IF RTOE # 0 THEN RTOE ELSE 0
    /\ pc' = "check_status"
    /\ UNCHANGED <<response, RID, RTOE, pollVars, fetches, parseVars, storeVars,
                   exitCode, fresh>>

\* one call of the decorated _check_status body and what the decorator does
\* with the value: retry after a delay, or return it
CheckStatus ==
    /\ pc = "check_status"
    /\ Len(replies) < MaxPolls
    /\ \E reply \in Replies :
          /\ replies' = Append(replies, reply)
          /\ IF reply = NO_STATUS
             THEN \* `status` is unbound at `return status`: UnboundLocalError
                  /\ Exit("crashed", 1)
                  /\ UNCHANGED <<fibo, wait, status>>
             ELSE IF retry_predicate(reply)
             THEN /\ wait' = fibo_next(fibo).value
                  /\ fibo' = fibo_next(fibo).gen
                  /\ pc' = "backoff"
                  /\ UNCHANGED <<status, exitCode>>
             ELSE /\ status' = reply
                  /\ pc' = "polled"
                  /\ UNCHANGED <<fibo, wait, exitCode>>
    /\ UNCHANGED <<response, RID, RTOE, slept, fetches, parseVars, storeVars, fresh>>

\* time.sleep(seconds) of the decorator, seconds a jittered part of `wait`
Backoff ==
    /\ pc = "backoff"
    /\ pc' = "check_status"
    /\ wait' = 0
    /\ UNCHANGED <<response, RID, RTOE, slept, replies, fibo, status, fetches,
                   parseVars, storeVars, exitCode, fresh>>

status_fatal_failed_only(st) == st = "FAILED"

\* if status == "FAILED": ... sys.exit(1);  if status == "UNKNOWN": ... sys.exit(1)
status_fatal(st) == st = "FAILED" \/ st = "UNKNOWN"

\* the checks of the returned status; the decorator's frame is gone
CheckOutcome ==
    /\ pc = "polled"
    /\ IF status_fatal(status) THEN Exit("exit", 1)
       ELSE pc' = "fetch" /\ UNCHANGED exitCode
    /\ replies' = <<>>
    /\ fibo' = FiboStart
    /\ wait' = 0
    /\ UNCHANGED <<response, RID, RTOE, slept, status, fetches, parseVars,
                   storeVars, fresh>>

\* root = _fetch_results(RID)
FetchResults ==
    /\ pc = "fetch"
    /\ fetches' = fetches + 1
    /\ \E d \in RunDocs : doc' = d
    /\ pc' = "fetched"
    /\ UNCHANGED <<response, RID, RTOE, slept, pollVars, queries, hits, hsps,
                   storeVars, exitCode, fresh>>

\* queries, hits, hsps = _parse_xml_results(root)
ParseXml ==
    /\ pc = "fetched"
    /\ LET r == parse_xml_results(doc)
       IN  /\ queries' = r.queries
           /\ hits' = r.hits
           /\ hsps' = r.hsps
    /\ pc' = "init_db"
    /\ UNCHANGED <<response, RID, RTOE, slept, pollVars, fetches, doc, storeVars,
                   exitCode, fresh>>

\* _initialize_database(output_db_name)
InitializeDatabase ==
    /\ pc = "init_db"
    /\ log' = Append(log, "init")
    /\ \E failAt \in 0..Len(CREATE_STATEMENTS) :
          LET r == initialize_database(store, failAt)
          IN  /\ store' = r.db
              /\ IF r.ok THEN /\ pc' = "load"
                              /\ UNCHANGED <<err, exitCode>>
                 ELSE /\ err' = (IF failAt # 0 THEN "io" ELSE "sql")
                      /\ Exit("exit", 1)
    /\ UNCHANGED <<response, RID, RTOE, slept, pollVars, fetches, parseVars, fresh>>

RUN_LOADS_HITS_FIRST == <<"hits", "queries", "hsps">>

\* the three _load_results_into_database calls of run_blast, in order
RUN_LOADS == <<"queries", "hits", "hsps">>

ResultData(table) ==
    IF table = "queries" THEN queries ELSE IF table = "hits" THEN hits ELSE hsps

\* _load_results_into_database(output_db_name, <collection>, <table>); after
\* the last one run_blast returns and the process ends with status 0
LoadResults ==
    /\ pc = "load"
    /\ Len(log) <= Len(RUN_LOADS)
    /\ LET table == RUN_LOADS[Len(log)]
       IN  /\ log' = Append(log, table)
           /\ \E fault \in BOOLEAN :
                 LET r == load_results_into_database(store, ResultData(table), table, fault)
                 IN  /\ store' = r.db
                     /\ IF r.ok
                        THEN /\ UNCHANGED err
                             /\ IF Len(log') > Len(RUN_LOADS) THEN Exit("exit", 0)
                                ELSE pc' = "load" /\ UNCHANGED exitCode
                        ELSE /\ err' = (IF fault THEN "io" ELSE "sql")
                             /\ Exit("exit", 1)
    /\ UNCHANGED <<response, RID, RTOE, slept, pollVars, fetches, parseVars, fresh>>

\* the program is started again with the same output_db_name
NewRun ==
    /\ pc \in {"exit", "crashed"}
    /\ pc' = "start"
    /\ response' = <<>>
    /\ RID' = <<>>
    /\ RTOE' = 0
    /\ slept' = 0
    /\ replies' = <<>>
    /\ fibo' = FiboStart
    /\ wait' = 0
    /\ status' = ""
    /\ fetches' = 0
    /\ doc' = <<>>
    /\ queries' = <<>>
    /\ hits' = <<>>
    /\ hsps' = <<>>
    /\ log' = <<>>
    /\ err' = "none"
    /\ exitCode' = 0
    /\ fresh' = NoRows(store)
    /\ UNCHANGED store

Next ==
    \/ SubmitQuery
    \/ ParseRidRtoe
    \/ CheckRID
    \/ SleepRTOE
    \/ CheckStatus
    \/ Backoff
    \/ CheckOutcome
    \/ FetchResults
    \/ ParseXml
    \/ InitializeDatabase
    \/ LoadResults
    \/ NewRun

Spec == Init /\ [][Next]_vars

----------------------------------------------------------------------------
(* The extractor alone, on every response text, followed by the two checks *)
(* run_blast makes of its result                                           *)

InitExtract ==
    /\ pc = "submitted"
    /\ response \in Responses
    /\ RID = <<>>
    /\ RTOE = 0
    /\ slept = 0
    /\ replies = <<>>
    /\ fibo = FiboStart
    /\ wait = 0
    /\ status = ""
    /\ fetches = 0
    /\ doc = <<>>
    /\ queries = <<>>
    /\ hits = <<>>
    /\ hsps = <<>>
    /\ log = <<>>
    /\ err = "none"
    /\ exitCode = 0
    /\ store = NoStore
    /\ fresh = TRUE

NextExtract ==
    \/ ParseRidRtoe
    \/ CheckRID
    \/ SleepRTOE

SpecExtract == InitExtract /\ [][NextExtract]_vars

(* The parser alone, on every document *)

Fetched(docs) ==
    /\ pc = "fetched"
    /\ response = <<K_RID, "A", NL>>
    /\ RID = <<"A">>
    /\ RTOE = 0
    /\ slept = 0
    /\ replies = <<>>
    /\ fibo = FiboStart
    /\ wait = 0
    /\ status = "READY"
    /\ fetches = 1
    /\ doc \in docs
    /\ queries = <<>>
    /\ hits = <<>>
    /\ hsps = <<>>
    /\ log = <<>>
    /\ err = "none"
    /\ exitCode = 0
    /\ store = NoStore
    /\ fresh = TRUE

InitParse == Fetched(ParseDocs)

NextParse == ParseXml

SpecParse == InitParse /\ [][NextParse]_vars

(* fetch -> parse -> persist of one well-formed document into a new store *)

InitPersist == Fetched({d \in ParseDocs : WellFormed(d)})

NextPersist ==
    \/ ParseXml
    \/ InitializeDatabase
    \/ LoadResults

SpecPersist == InitPersist /\ [][NextPersist]_vars

----------------------------------------------------------------------------
(* Properties *)

Last(s) == s[Len(s)]

AllBefore(s, v) == \A i \in 1..(Len(s) - 1) : s[i] = v

\* C1, as stated: the poller retries after a reply if and only if the reply
\* was PENDING, and returns the first reply that is not PENDING.
C1_RetriesWhilePending ==
    /\ pc = "backoff" => Last(replies) = "PENDING"
    /\ pc = "polled" =>
          /\ status = Last(replies)
          /\ status # "PENDING"
          /\ AllBefore(replies, "PENDING")

\* C1, amended: the pending status of the code is WAITING.  A retry is
\* pending exactly after a WAITING reply; the poller returns the first reply
\* that is not WAITING, immediately when that is the first reply; every
\* reply before the last one was WAITING.
C1_RetriesWhileWaiting ==
    /\ pc = "backoff" => Last(replies) = "WAITING" /\ wait >= 1
    /\ pc = "check_status" => \A i \in 1..Len(replies) : replies[i] = "WAITING"
    /\ pc \in {"backoff", "polled", "crashed"} => AllBefore(replies, "WAITING")
    /\ pc = "polled" =>
          /\ status = Last(replies)
          /\ status \notin {"WAITING", NO_STATUS}
          /\ (replies[1] \in {"READY", "FAILED", "UNKNOWN"} => Len(replies) = 1)

C1_Witness ==
    /\ pc = "polled"
    /\ Len(replies) = 4
    /\ status = "READY"

\* C2: a fetch request is sent only when the polled status is READY.
C2_FetchOnlyWhenReady == fetches > 0 => status = "READY"

\* C3: a missing job identifier, a FAILED status or an UNKNOWN status ends
\* the run with exit status 1, without a fetch and without a store operation
\* (the store changes only in a step that logs a store operation), and a
\* missing identifier also without sleep or status check; a run whose last
\* load succeeded ends with exit status 0.
C3_FatalExits ==
    /\ [](pc = "exit" /\ RID = <<>> =>
             /\ exitCode = 1
             /\ fetches = 0 /\ log = <<>>
             /\ slept = 0 /\ replies = <<>> /\ status = "")
    /\ [](pc \in {"exit", "fetch", "fetched", "init_db", "load"}
            /\ status \in {"FAILED", "UNKNOWN"} =>
             /\ pc = "exit"
             /\ exitCode = 1
             /\ fetches = 0 /\ log = <<>>)
    /\ [](pc = "exit" /\ Len(log) = 1 + Len(RUN_LOADS) /\ err = "none" => exitCode = 0)
    /\ [][store' # store => Len(log') = Len(log) + 1]_vars

C3_Witness ==
    /\ pc = "exit"
    /\ status = "UNKNOWN"
    /\ exitCode = 1
    /\ store.hsps # {}

\* C4: in every state of the store, every hits row names a queryID that is
\* in the queries table and every hsps row names a hitID that is in the hits
\* table.
C4_ForeignKeysHold ==
    /\ \A h \in store.hits : \E q \in store.queries : q[1] = h[4]
    /\ \A p \in store.hsps : \E h \in store.hits : h[1] = p[7]

C4_Witness ==
    /\ pc = "exit"
    /\ exitCode = 1
    /\ err = "sql"
    /\ Len(log) = 3
    /\ store.hsps # {}

\* numbers of hits and hsps of a document, and the place of a hit and of an
\* hsp in document order
HitPlaces(d) ==
    {p \in (1..Len(d)) \X (1..MaxNodes) : p[2] <= Len(d[p[1]].hits)}

HspPlaces(d) ==
    {p \in (1..Len(d)) \X (1..MaxNodes) \X (1..MaxNodes) :
        /\ p[2] <= Len(d[p[1]].hits)
        /\ p[3] <= Len(d[p[1]].hits[p[2]].hsps)}

HitIndex(d, i, j) ==
    Cardinality({p \in HitPlaces(d) : p[1] < i \/ (p[1] = i /\ p[2] <= j)})

HspIndex(d, i, j, k) ==
    Cardinality({p \in HspPlaces(d) :
        \/ p[1] < i
        \/ (p[1] = i /\ p[2] < j)
        \/ (p[1] = i /\ p[2] = j /\ p[3] <= k)})

\* C5: the pipeline run on a well-formed document against a new store, with
\* no fault of the file system, ends with status 0 and leaves as many rows
\* as the document has queries, hits and hsps.
C5_FreshStoreRowCounts ==
    pc = "exit" /\ err # "io" =>
        /\ exitCode = 0
        /\ Cardinality(store.queries) = Len(doc)
        /\ Cardinality(store.hits) = Cardinality(HitPlaces(doc))
        /\ Cardinality(store.hsps) = Cardinality(HspPlaces(doc))

\* C6: the parser returns one query record per iteration, one hit record per
\* hit and one hsp record per hsp, in document order, nothing merged or
\* dropped; a hit record carries the id of its iteration's query and an hsp
\* record the id of its hit.
C6_ParserRecords ==
    pc = "init_db" =>
        /\ Len(queries) = Len(doc)
        /\ Len(hits) = Cardinality(HitPlaces(doc))
        /\ Len(hsps) = Cardinality(HspPlaces(doc))
        /\ \A i \in 1..Len(doc) :
              queries[i] = <<doc[i].query_ID, doc[i].query_def, doc[i].query_len>>
        /\ \A p \in HitPlaces(doc) :
              LET h == doc[p[1]].hits[p[2]]
              IN  hits[HitIndex(doc, p[1], p[2])] =
                      <<h.Hit_id, h.Hit_def, h.Hit_accession, doc[p[1]].query_ID>>
        /\ \A p \in HspPlaces(doc) :
              LET h == doc[p[1]].hits[p[2]]
                  a == h.hsps[p[3]]
                  r == hsps[HspIndex(doc, p[1], p[2], p[3])]
              IN  /\ <<r[1], r[2], r[3], r[4]>> =
                         <<a.align_len, a.bit_score, a.evalue, a.gaps>>
                  /\ r[6] = h.Hit_id

C6_Witness ==
    /\ pc = "init_db"
    /\ Len(queries) = 2
    /\ Len(hits) = 2
    /\ Len(hsps) = 2
    /\ queries[1] = queries[2]
    /\ hits[1][1] # hits[2][1]
    /\ hsps[1][1] # hsps[2][1]
    /\ hsps[1][6] = hits[2][1]

\* C9: the percent identity of every hsp record is 100 * alignment length /
\* length of the enclosing query, as that expression evaluates.
C9_PercentIdentityExact ==
    pc = "init_db" =>
        \A p \in HspPlaces(doc) :
            LET a == doc[p[1]].hits[p[2]].hsps[p[3]]
            IN  hsps[HspIndex(doc, p[1], p[2], p[3])][5] =
                    FloatDiv(100 * a.align_len, doc[p[1]].query_len)

\* the newline-terminated lines of a text, each named by the place of its
\* newline; a line of the form `KEY = value` may be indented
LineEnds(text) == {j \in 1..Len(text) : text[j] = NL}

LineAt(text, j) ==
    LET before == {i \in LineEnds(text) : i < j}
        from == IF before = {} THEN 1
                ELSE 1 + CHOOSE i \in before : \A k \in before : k <= i
    IN  SubSeq(text, from, j - 1)

KeyLines(text, key) ==
    {j \in LineEnds(text) :
        LET line == LStrip(LineAt(text, j)) IN line # <<>> /\ Head(line) = key}

HasLine(text, key) == KeyLines(text, key) # {}

LineValue(text, key) == Tail(LStrip(LineAt(text, Min(KeyLines(text, key)))))

\* C7: with a line `RID = X` the identifier is X, without one it is empty;
\* with a line `RTOE = N` the ETA is N, without one it is 0; each of the
\* two independently of the other.  run_blast exits with status 1 on the
\* empty identifier and sleeps RTOE seconds, so not at all when it is 0.
\* (Lines end with a newline; of several lines with one key the first counts;
\* int() raises only when N is no integer.)
C7_Extractor ==
    LET hasRid == HasLine(response, K_RID)
        hasRtoe == HasLine(response, K_RTOE)
    IN  /\ pc = "crashed" => hasRtoe /\ ~IntParses(LineValue(response, K_RTOE))
        /\ pc \notin {"submitted", "crashed"} =>
              /\ RID = (IF hasRid THEN LineValue(response, K_RID) ELSE <<>>)
              /\ hasRtoe => /\ IntParses(LineValue(response, K_RTOE))
                            /\ RTOE = DecimalValue(RStrip(LStrip(LineValue(response, K_RTOE))))
              /\ ~hasRtoe => RTOE = 0
        /\ pc = "exit" => RID = <<>> /\ exitCode = 1
        /\ pc \in {"rtoe", "check_status"} => RID # <<>> /\ hasRid
        /\ pc = "check_status" => slept = RTOE

C7_Witness ==
    /\ pc = "check_status"
    /\ RID = <<"A", "7", SP>>
    /\ RTOE = 12
    /\ slept = 12
    /\ Cardinality(KeyLines(response, K_RID)) = 2

\* C8: _initialize_database run on a store that already has the three tables
\* raises nothing of its own (only a fault of the file system can stop it)
\* and leaves the tables and every row as they were.
C8_InitIdempotent ==
    [][pc = "init_db" /\ store.tables = TableNames =>
          /\ store' = store
          /\ (pc' = "load" \/ err' = "io")]_vars

C8_Witness ==
    /\ pc = "load"
    /\ log = <<"init">>
    /\ ~fresh
    /\ store.hsps # {}

IsPrefix(s, t) == Len(s) <= Len(t) /\ s = SubSeq(t, 1, Len(s))

Rows(db, table) ==
    IF table = "queries" THEN db.queries
    ELSE IF table = "hits" THEN db.hits ELSE db.hsps

\* C10: the store operations of a run are schema creation, queries, hits,
\* hsps, in this order and after parsing; a load that succeeds adds its whole
\* batch to its own table and to no other; a load that fails ends the run
\* with status 1 and leaves the store as it was (none of its rows, the rows of
\* the earlier batches kept), and no operation follows it.
C10_PersistenceOrder ==
    /\ [](IsPrefix(log, <<"init", "queries", "hits", "hsps">>))
    /\ [](log # <<>> =>
             /\ pc \in {"load", "exit"}
             /\ [queries |-> queries, hits |-> hits, hsps |-> hsps]
                    = parse_xml_results(doc))
    /\ [][pc = "load" /\ pc' = "exit" /\ exitCode' = 1 => store' = store]_vars
    /\ [][pc = "exit" => store' = store /\ log' = <<>>]_vars
    /\ [][pc = "load" /\ ~(pc' = "exit" /\ exitCode' = 1) =>
             LET table == Last(log')
             IN  /\ Cardinality(Rows(store', table))
                        = Cardinality(Rows(store, table)) + Len(ResultData(table))
                 /\ Rows(store, table) \subseteq Rows(store', table)
                 /\ \A t \in TableNames \ {table} : Rows(store', t) = Rows(store, t)]_vars

C10_Witness ==
    /\ pc = "exit"
    /\ exitCode = 1
    /\ err = "sql"
    /\ log = <<"init", "queries", "hits">>
    /\ queries # <<>>
    /\ \A i \in 1..Len(queries) : queries[i] \in store.queries
    /\ \A i \in 1..Len(hits) : hits[i] \notin store.hits

============================================================================
